---- MODULE Spec2Model ----
(***************************************************************************)
(* Model of the implied-volatility surface builder (src/vol_surface.py).   *)
(*                                                                         *)
(* Units.  Money amounts that the code compares with 0.05 are in cents;    *)
(* strikes and underlying prices are whole dollars; implied volatilities  *)
(* are in basis points (1e-4), so 0.02 is 200 and 1.0 is 10000.  A ratio   *)
(* (moneyness, the volume-weighted IV) is the pair [num, den] and is       *)
(* compared by cross-multiplication, den > 0.  Timestamps are minutes      *)
(* since 2023-01-01 00:00, dates are days since 2023-01-01.                *)
(*                                                                         *)
(* A DataFrame is the sequence of its rows; a pandas "not available"       *)
(* value (NaN / NaT) is the sentinel NaN, and every comparison with it is  *)
(* false, as in pandas.                                                    *)
(***************************************************************************)
EXTENDS Integers, Sequences, FiniteSets, TLC

VARIABLES pc, raw, df, trades, curves, err,
          view_i, view, buckets, bt_i, spot, frames, figs

vars == <<pc, raw, df, trades, curves, err,
          view_i, view, buckets, bt_i, spot, frames, figs>>

animVars == <<view_i, view, buckets, bt_i, spot, frames, figs>>

----------------------------------------------------------------------------
(* Bounds of the model *)

\* longest input file (rows of the CSV) the pipeline is run on
MaxTrades == 3

----------------------------------------------------------------------------
(* Program constants *)

MinPrice      == 5        \* prtPrice >= 0.05            (cents)
MinTradeIv    == 200      \* prtIv > 0.02                (basis points)
MaxTradeIv    == 10000    \* prtIv < 1.0
MoneyLoPct    == 80       \* moneyness >= 0.80           (percent)
MoneyHiPct    == 120      \* moneyness <= 1.20
BucketMinutes == 5        \* bucket_freq = '5min'
TzShiftMin    == 300      \* pd.Timedelta(hours=5)       (minutes)
MinVolume     == 2        \* min_volume = 2
MinCurveIv    == 500      \* iv >= 0.05
MaxCurveIv    == 3500     \* iv <= 0.35
MaxDte        == 60       \* days_to_exp <= 60
MinFrameRows  == 5        \* len(bt_data) < 5 / len(otm) >= 5

\* pandas' missing value (NaN, NaT) after coercion
NaN == -999999
\* a CSV cell whose text is not a number / not a timestamp / empty
BadText == -888888

IsNA(x) == x = NaN

\* comparisons as pandas evaluates them: any comparison with NaN is False
Ge(a, b) == ~IsNA(a) /\ ~IsNA(b) /\ a >= b
Gt(a, b) == ~IsNA(a) /\ ~IsNA(b) /\ a > b
Le(a, b) == ~IsNA(a) /\ ~IsNA(b) /\ a <= b
Lt(a, b) == ~IsNA(a) /\ ~IsNA(b) /\ a < b

----------------------------------------------------------------------------
(* Calendar: what pd.to_datetime / Timestamp arithmetic compute *)

IsLeap(y) == (y % 4 = 0 /\ y % 100 # 0) \/ y % 400 = 0

DaysInMonth(y, m) ==
    IF m = 2 THEN (IF IsLeap(y) THEN 29 ELSE 28)
    ELSE IF m \in {4, 6, 9, 11} THEN 30 ELSE 31

RECURSIVE DaysBeforeMonth(_, _)
DaysBeforeMonth(y, m) ==
    IF m <= 1 THEN 0 ELSE DaysBeforeMonth(y, m - 1) + DaysInMonth(y, m - 1)

RECURSIVE DaysBeforeYear(_)
DaysBeforeYear(y) ==
    IF y <= 2023 THEN 0
    ELSE DaysBeforeYear(y - 1) + (IF IsLeap(y - 1) THEN 366 ELSE 365)

\* days since 2023-01-01 of a valid calendar date
DayNumber(y, m, d) == DaysBeforeYear(y) + DaysBeforeMonth(y, m) + (d - 1)

\* the text 'YYYY-MM-DD' composed at lines 29-31 names a calendar date
ValidDate(y, m, d) ==
    /\ ~IsNA(y) /\ ~IsNA(m) /\ ~IsNA(d)
    /\ y \in 2023..2025
    /\ m \in 1..12
    /\ d \in 1..DaysInMonth(y, m)

\* a raw timestamp cell: minutes since 2023-01-01 00:00
TS(y, m, d, hh, mm) == DayNumber(y, m, d) * 1440 + hh * 60 + mm

\* Series.dt.floor(bucket_freq)
Floor(ts, freq) == IF IsNA(ts) THEN NaN ELSE ts - (ts % freq)
\* Timestamp.normalize(): midnight of the same day
Normalize(ts) == ts - (ts % 1440)
\* (expiration - ref_date).dt.days: whole days, rounded down
DaysBetween(expDay, refTs) ==
    IF IsNA(expDay) THEN NaN ELSE (expDay * 1440 - refTs) \div 1440

----------------------------------------------------------------------------
(* Generic sequence helpers *)

RECURSIVE SeqSum(_)
SeqSum(s) == IF s = <<>> THEN 0 ELSE Head(s) + SeqSum(Tail(s))

SetMin(S) == CHOOSE x \in S : \A y \in S : x <= y

----------------------------------------------------------------------------
(* Input rows: the cells of one CSV line that the code reads.  uBid and   *)
(* uAsk are coerced at line 21 and never read again; they are left out.   *)

BaseRow ==
    [ticker_tk |-> "SPY", timestamp |-> TS(2023, 12, 1, 14, 31),
     prtPrice |-> 5, prtSize |-> 2, prtIv |-> 2000,
     uPrc |-> 100, okey_xx |-> 101, okey_cp |-> "Call",
     okey_yr |-> 2023, okey_mn |-> 12, okey_dy |-> 4]

\* every row a file may hold: the base row, and rows that differ from it in
\* the cells one predicate, one grouping key or one parser reads
RowUniverse ==
    { BaseRow,
      [BaseRow EXCEPT !.prtSize = 1],
      [BaseRow EXCEPT !.prtSize = 3, !.prtIv = 3000],
      [BaseRow EXCEPT !.prtIv = 300],
      [BaseRow EXCEPT !.prtIv = 4000],
      [BaseRow EXCEPT !.prtPrice = 4],
      [BaseRow EXCEPT !.prtSize = 0],
      [BaseRow EXCEPT !.prtIv = 200],
      [BaseRow EXCEPT !.uPrc = 0],
      [BaseRow EXCEPT !.okey_xx = 121],
      [BaseRow EXCEPT !.okey_cp = "Put"],
      [BaseRow EXCEPT !.uPrc = 102],
      [BaseRow EXCEPT !.timestamp = TS(2023, 12, 2, 3, 2)],
      [BaseRow EXCEPT !.timestamp = TS(2023, 11, 30, 14, 30),
                      !.okey_mn = 11, !.okey_dy = 30],
      [BaseRow EXCEPT !.okey_yr = 2024, !.okey_mn = 1, !.okey_dy = 31],
      [BaseRow EXCEPT !.okey_mn = 13],
      [BaseRow EXCEPT !.prtIv = BadText],
      [BaseRow EXCEPT !.timestamp = BadText],
      [BaseRow EXCEPT !.ticker_tk = "QQQ", !.okey_mn = 13] }

RECURSIVE SeqsUpTo(_, _)
SeqsUpTo(S, n) ==
    IF n = 0 THEN {<<>>}
    ELSE LET shorter == SeqsUpTo(S, n - 1)
         IN  shorter \cup {Append(s, x) : s \in shorter, x \in S}

----------------------------------------------------------------------------
(* load_trades *)

\* pd.to_numeric(errors='coerce')
ToNumeric(x) == IF x = BadText THEN NaN ELSE x

\* pd.to_datetime(errors='coerce') of the timestamp text, then - 5 hours
ParseTimestamp(x) == IF x = BadText THEN NaN ELSE x - TzShiftMin

\* the rows kept by df[df['ticker_tk'] == 'SPY']
IsSPY(r) == r.ticker_tk = "SPY"

\* pd.to_datetime(...) at line 28 has no errors='coerce': it raises on the
\* first row whose composed text is not a date
DateRaises(rows) ==
    \E i \in 1..Len(rows) :
        ~ValidDate(rows[i].okey_yr, rows[i].okey_mn, rows[i].okey_dy)

LoadRow(r) ==
    [timestamp  |-> ParseTimestamp(r.timestamp),
     prtPrice   |-> ToNumeric(r.prtPrice),
     prtSize    |-> ToNumeric(r.prtSize),
     prtIv      |-> ToNumeric(r.prtIv),
     uPrc       |-> ToNumeric(r.uPrc),
     okey_xx    |-> ToNumeric(r.okey_xx),
     okey_cp    |-> r.okey_cp,
     expiration |-> DayNumber(r.okey_yr, r.okey_mn, r.okey_dy)]

load_trades(rows) ==
    LET spy == SelectSeq(rows, IsSPY)
    IN  [i \in 1..Len(spy) |-> LoadRow(spy[i])]

----------------------------------------------------------------------------
(* filter_trades *)

\* faulty variant: the IV floor is not strict
Admit_IvFloorInclusive(r) ==
    /\ Ge(r.prtPrice, MinPrice)
    /\ Gt(r.prtSize, 0)
    /\ Ge(r.prtIv, MinTradeIv)
    /\ Lt(r.prtIv, MaxTradeIv)
    /\ Gt(r.uPrc, 0)

\* lines 38-44
Admit(r) ==
    /\ Ge(r.prtPrice, MinPrice)
    /\ Gt(r.prtSize, 0)
    /\ Gt(r.prtIv, MinTradeIv)
    /\ Lt(r.prtIv, MaxTradeIv)
    /\ Gt(r.uPrc, 0)

\* line 47: 0.80 <= okey_xx / uPrc <= 1.20, uPrc > 0 already
InBand(r) ==
    /\ ~IsNA(r.okey_xx)
    /\ 100 * r.okey_xx >= MoneyLoPct * r.uPrc
    /\ 100 * r.okey_xx <= MoneyHiPct * r.uPrc

\* lines 49-52
IsOtm(r) ==
    \/ (r.okey_cp = "Put" /\ Lt(r.okey_xx, r.uPrc))
    \/ (r.okey_cp = "Call" /\ Gt(r.okey_xx, r.uPrc))

\* lines 46-54: the derived columns, before days_to_exp
Derive(r) ==
    [timestamp   |-> r.timestamp,
     prtPrice    |-> r.prtPrice,
     prtSize     |-> r.prtSize,
     prtIv       |-> r.prtIv,
     uPrc        |-> r.uPrc,
     okey_xx     |-> r.okey_xx,
     okey_cp     |-> r.okey_cp,
     expiration  |-> r.expiration,
     moneyness   |-> [num |-> r.okey_xx, den |-> r.uPrc],
     is_otm      |-> IsOtm(r),
     bucket_time |-> Floor(r.timestamp, BucketMinutes)]

AdmittedOK(r) == Admit(r) /\ InBand(r)

\* the frame at line 54: admitted, in band, derived columns attached
Admitted(d) ==
    LET kept == SelectSeq(d, AdmittedOK)
    IN  [i \in 1..Len(kept) |-> Derive(kept[i])]

\* df['bucket_time'].min(): NaT is skipped; NaT when nothing is left
MinBucket(d) ==
    LET ts == {d[i].bucket_time : i \in 1..Len(d)} \ {NaN}
    IN  IF ts = {} THEN NaN ELSE SetMin(ts)

\* line 56: NaT has no normalize(), the attribute lookup raises
FilterRaises(d) == IsNA(MinBucket(Admitted(d)))

\* faulty variant: the reference is the earliest bucket itself, not its midnight
RefDate_NotNormalized(adm) == MinBucket(adm)

\* line 56
RefDate(adm) == Normalize(MinBucket(adm))

WithDte(r, ref) ==
    [timestamp   |-> r.timestamp,
     prtPrice    |-> r.prtPrice,
     prtSize     |-> r.prtSize,
     prtIv       |-> r.prtIv,
     uPrc        |-> r.uPrc,
     okey_xx     |-> r.okey_xx,
     okey_cp     |-> r.okey_cp,
     expiration  |-> r.expiration,
     moneyness   |-> r.moneyness,
     is_otm      |-> r.is_otm,
     bucket_time |-> r.bucket_time,
     days_to_exp |-> DaysBetween(r.expiration, ref)]

\* line 58
Unexpired(r) == Gt(r.days_to_exp, 0)

filter_trades(d) ==
    LET adm  == Admitted(d)
        ref  == RefDate(adm)
        full == [i \in 1..Len(adm) |-> WithDte(adm[i], ref)]
    IN  SelectSeq(full, Unexpired)

----------------------------------------------------------------------------
(* aggregate_curves *)

\* line 64: the groupby key
GroupKey(r) == <<r.bucket_time, r.expiration, r.okey_xx, r.okey_cp, r.is_otm>>

\* groupby drops a row whose key holds a missing value (dropna=True)
KeyAvailable(r) ==
    ~IsNA(r.bucket_time) /\ ~IsNA(r.expiration) /\ ~IsNA(r.okey_xx)

GroupKeys(d) == {GroupKey(d[i]) : i \in {j \in 1..Len(d) : KeyAvailable(d[j])}}

\* the rows of one group, in frame order
GroupRows(d, k) ==
    LET idx == {i \in 1..Len(d) : GroupKey(d[i]) = k}
        F[i \in 0..Len(d)] ==
            IF i = 0 THEN <<>>
            ELSE IF i \in idx THEN Append(F[i - 1], d[i]) ELSE F[i - 1]
    IN  F[Len(d)]

\* line 66: 'prtSize': 'sum'
Volume(g) == SeqSum([i \in 1..Len(g) |-> g[i].prtSize])

\* faulty variant: a plain mean, the sizes are not used as weights
WeightedIv_Unweighted(g) ==
    [num |-> SeqSum([i \in 1..Len(g) |-> g[i].prtIv]), den |-> Len(g)]

\* line 65: np.average(x, weights=prtSize of the same rows), as a ratio
WeightedIv(g) ==
    [num |-> SeqSum([i \in 1..Len(g) |-> g[i].prtIv * g[i].prtSize]),
     den |-> SeqSum([i \in 1..Len(g) |-> g[i].prtSize])]

\* lines 64-73: one row per group
Point(d, k) ==
    LET g == GroupRows(d, k)
    IN  [bucket_time |-> k[1],
         expiration  |-> k[2],
         strike      |-> k[3],
         cp          |-> k[4],
         is_otm      |-> k[5],
         iv          |-> WeightedIv(g),
         volume      |-> Volume(g),
         days_to_exp |-> g[1].days_to_exp,
         underlying  |-> g[1].uPrc,
         moneyness   |-> g[1].moneyness]

\* faulty variant: the horizon cutoff is missing
KeepPoint_NoHorizon(p, min_volume) ==
    /\ p.volume >= min_volume
    /\ p.iv.num >= MinCurveIv * p.iv.den
    /\ p.iv.num <= MaxCurveIv * p.iv.den

\* faulty variant: the volume floor is missing
KeepPoint_NoVolume(p, min_volume) ==
    /\ p.iv.num >= MinCurveIv * p.iv.den
    /\ p.iv.num <= MaxCurveIv * p.iv.den
    /\ p.days_to_exp <= MaxDte

\* lines 75-77
KeepPoint(p, min_volume) ==
    /\ p.volume >= min_volume
    /\ p.iv.num >= MinCurveIv * p.iv.den
    /\ p.iv.num <= MaxCurveIv * p.iv.den
    /\ p.days_to_exp <= MaxDte

\* the returned frame; its row order is never read downstream, so it is the
\* set of its rows
aggregate_curves(d, min_volume) ==
    {p \in {Point(d, k) : k \in GroupKeys(d)} : KeepPoint(p, min_volume)}

----------------------------------------------------------------------------
(* run, lines 256-258: load_trades, filter_trades, aggregate_curves *)

NoView == "none"

AnimIdle ==
    /\ view_i = 0 /\ view = NoView /\ buckets = <<>> /\ bt_i = 0
    /\ spot = [num |-> NaN, den |-> 2] /\ frames = <<>> /\ figs = <<>>

Init ==
    /\ raw \in SeqsUpTo(RowUniverse, MaxTrades)
    /\ pc = "load"
    /\ df = <<>> /\ trades = <<>> /\ curves = {}
    /\ err = "none"
    /\ AnimIdle

\* line 256
Load ==
    /\ pc = "load"
    /\ IF DateRaises(SelectSeq(raw, IsSPY))
       THEN /\ pc' = "raised"
            /\ err' = "ValueError"
            /\ df' = df
       ELSE /\ pc' = "filter"
            /\ err' = err
            /\ df' = load_trades(raw)
    /\ UNCHANGED <<raw, trades, curves>>
    /\ UNCHANGED animVars

\* line 257
Filter ==
    /\ pc = "filter"
    /\ IF FilterRaises(df)
       THEN /\ pc' = "raised"
            /\ err' = "AttributeError"
            /\ trades' = trades
       ELSE /\ pc' = "aggregate"
            /\ err' = err
            /\ trades' = filter_trades(df)
    /\ UNCHANGED <<raw, df, curves>>
    /\ UNCHANGED animVars

\* line 258
Aggregate ==
    /\ pc = "aggregate"
    /\ curves' = aggregate_curves(trades, MinVolume)
    /\ pc' = "views"
    /\ UNCHANGED <<raw, df, trades, err>>
    /\ UNCHANGED animVars

Next == Load \/ Filter \/ Aggregate

Spec == Init /\ [][Next]_vars

----------------------------------------------------------------------------
(* Aggregated curves handed to build_animation.  Each row is the point    *)
(* aggregate_curves yields for one trade of size 2 made on 2023-12-01, so *)
(* every set of these rows is a frame the pipeline can produce.           *)

\* largest number of rows of the curve frame
MaxCurveRows == 11

Bucket1 == TS(2023, 12, 1, 9, 30)
Bucket2 == TS(2023, 12, 1, 9, 35)

CurveRow(bt, cp, strike, dy, und) ==
    [bucket_time |-> bt,
     expiration  |-> DayNumber(2023, 12, dy),
     strike      |-> strike,
     cp          |-> cp,
     is_otm      |-> IF cp = "Put" THEN strike < und ELSE strike > und,
     iv          |-> [num |-> 2000 * 2, den |-> 2],
     volume      |-> 2,
     days_to_exp |-> dy - 1,
     underlying  |-> und,
     moneyness   |-> [num |-> strike, den |-> und]]

CurveUniverse ==
    { CurveRow(Bucket1, "Put", 97, 4, 100),
      CurveRow(Bucket1, "Put", 98, 4, 100),
      CurveRow(Bucket1, "Put", 99, 4, 100),
      CurveRow(Bucket1, "Put", 96, 8, 100),
      CurveRow(Bucket1, "Put", 101, 4, 100),
      CurveRow(Bucket1, "Call", 101, 4, 100),
      CurveRow(Bucket1, "Call", 102, 4, 100),
      CurveRow(Bucket1, "Call", 103, 8, 100),
      CurveRow(Bucket1, "Call", 104, 8, 100),
      CurveRow(Bucket1, "Call", 99, 4, 100),
      CurveRow(Bucket2, "Put", 95, 4, 98),
      CurveRow(Bucket2, "Put", 96, 8, 98),
      CurveRow(Bucket2, "Put", 97, 4, 98),
      CurveRow(Bucket2, "Put", 99, 4, 98),
      CurveRow(Bucket2, "Call", 99, 4, 98),
      CurveRow(Bucket2, "Call", 100, 8, 98) }

----------------------------------------------------------------------------
(* build_animation *)

\* the views run() asks for, lines 265 and 271
Views == <<"both", "puts", "calls", "both">>

RECURSIVE SortedSeq(_)
SortedSeq(S) ==
    IF S = {} THEN <<>>
    ELSE LET m == SetMin(S) IN <<m>> \o SortedSeq(S \ {m})

\* line 83: sorted(curves['bucket_time'].unique())
BucketsOf(C) == SortedSeq({r.bucket_time : r \in C})

\* a column of the frame, sorted: the values with their multiplicity
RECURSIVE SortedUnderlying(_)
SortedUnderlying(C) ==
    IF C = {} THEN <<>>
    ELSE LET r == CHOOSE x \in C : \A y \in C : x.underlying <= y.underlying
         IN  <<r.underlying>> \o SortedUnderlying(C \ {r})

\* Series.median(), as a ratio over 2; NaN for an empty column
Median(C) ==
    LET s == SortedUnderlying(C)
        n == Len(s)
    IN  IF n = 0 THEN [num |-> NaN, den |-> 2]
        ELSE IF n % 2 = 1 THEN [num |-> 2 * s[(n + 1) \div 2], den |-> 2]
        ELSE [num |-> s[n \div 2] + s[n \div 2 + 1], den |-> 2]

\* lines 94-99
ViewData(C, v) ==
    IF v = "puts" THEN {r \in C : r.cp = "Put"}
    ELSE IF v = "calls" THEN {r \in C : r.cp = "Call"}
    ELSE C

\* faulty variant: the median is taken over the rows of the selected view
SpotOf_ViewData(C, v) == Median(ViewData(C, v))

\* line 84
SpotOf(C, v) == Median(C)

\* lines 86-89: the axes of K, T = meshgrid(linspace(..), linspace(..))
GridOf(sp) ==
    [k_min |-> [num |-> 9 * sp.num, den |-> 10 * sp.den],
     k_max |-> [num |-> 11 * sp.num, den |-> 10 * sp.den],
     k_n |-> 25, t_min |-> 1, t_max |-> 45, t_n |-> 18]

\* line 104
BucketData(C, v, bt) == {r \in ViewData(C, v) : r.bucket_time = bt}

\* faulty variant: a bucket of exactly five rows is passed over too
TooFew_OffByOne(rows) == Cardinality(rows) <= MinFrameRows

\* line 105
TooFew(rows) == Cardinality(rows) < MinFrameRows

\* faulty variant: the surface is fitted from every row of the bucket
OtmRows_All(rows) == rows

\* line 110
OtmRows(rows) == {r \in rows : r.is_otm = TRUE}

\* what a trace plots of a row: strike, days_to_exp, iv * 100
Pt(r) == [x |-> r.strike, y |-> r.days_to_exp,
          z |-> [num |-> 100 * r.iv.num, den |-> r.iv.den]]

PointsOf(rows) == {Pt(r) : r \in rows}

\* scipy's griddata cannot triangulate points that all lie on one line
Collinear(P) ==
    \A a, b, c \in P :
        (b.x - a.x) * (c.y - a.y) = (c.x - a.x) * (b.y - a.y)

GriddataRaises(rows) == Collinear(PointsOf(rows))

\* lines 110-127: the surface trace, or nothing
SurfaceTraces(rows, sp) ==
    LET otm == OtmRows(rows)
    IN  IF Cardinality(otm) >= MinFrameRows /\ ~GriddataRaises(otm)
        THEN << [type |-> "Surface", name |-> "surface",
                 grid |-> GridOf(sp), points |-> PointsOf(otm)] >>
        ELSE <<>>

SideTrace(rows, side) ==
    LET subset == {r \in rows : r.cp = side}
    IN  IF Cardinality(subset) > 0
        THEN << [type |-> "Scatter3d", name |-> side,
                 grid |-> NaN, points |-> PointsOf(subset)] >>
        ELSE <<>>

\* lines 129-149
ScatterTraces(rows, v) ==
    IF v = "both"
    THEN SideTrace(rows, "Put") \o SideTrace(rows, "Call")
    ELSE << [type |-> "Scatter3d", name |-> v,
             grid |-> NaN, points |-> PointsOf(rows)] >>

\* lines 151-156: the ATM line at x = spot
AtmTrace(sp) ==
    << [type |-> "Scatter3d", name |-> "ATM", grid |-> NaN,
        points |-> {[x |-> sp, y |-> 1, z |-> 8], [x |-> sp, y |-> 45, z |-> 15]}] >>

\* lines 108-159
FrameOf(rows, v, bt, sp) ==
    [name |-> bt,
     data |-> SurfaceTraces(rows, sp) \o ScatterTraces(rows, v) \o AtmTrace(sp)]

\* lines 82-99: a call of build_animation begins
StartView ==
    /\ pc = "views"
    /\ view_i < Len(Views)
    /\ view_i' = view_i + 1
    /\ view' = Views[view_i + 1]
    /\ buckets' = BucketsOf(curves)
    /\ spot' = SpotOf(curves, Views[view_i + 1])
    /\ bt_i' = 1
    /\ frames' = <<>>
    /\ pc' = "bucket"
    /\ UNCHANGED <<raw, df, trades, curves, err, figs>>

\* lines 103-106: a bucket with too few rows is passed over
SkipBucket ==
    /\ pc = "bucket"
    /\ bt_i <= Len(buckets)
    /\ TooFew(BucketData(curves, view, buckets[bt_i]))
    /\ bt_i' = bt_i + 1
    /\ UNCHANGED <<pc, raw, df, trades, curves, err,
                   view_i, view, buckets, spot, frames, figs>>

\* lines 103-159: a bucket yields its frame
EmitFrame ==
    /\ pc = "bucket"
    /\ bt_i <= Len(buckets)
    /\ ~TooFew(BucketData(curves, view, buckets[bt_i]))
    /\ frames' = Append(frames,
                       FrameOf(BucketData(curves, view, buckets[bt_i]),
                               view, buckets[bt_i], spot))
    /\ bt_i' = bt_i + 1
    /\ UNCHANGED <<pc, raw, df, trades, curves, err,
                   view_i, view, buckets, spot, figs>>

\* line 161: frames[0] of an empty list
EmptyFigure ==
    /\ pc = "bucket"
    /\ bt_i > Len(buckets)
    /\ frames = <<>>
    /\ pc' = "raised"
    /\ err' = "IndexError"
    /\ UNCHANGED <<raw, df, trades, curves,
                   view_i, view, buckets, bt_i, spot, frames, figs>>

\* lines 161-213 and 267, 272: the figure is returned and written
ReturnFigure ==
    /\ pc = "bucket"
    /\ bt_i > Len(buckets)
    /\ frames # <<>>
    /\ figs' = Append(figs, [view |-> view, spot |-> spot, frames |-> frames])
    /\ pc' = IF view_i = Len(Views) THEN "done" ELSE "views"
    /\ UNCHANGED <<raw, df, trades, curves, err,
                   view_i, view, buckets, bt_i, spot, frames>>

InitAnim ==
    /\ curves \in {C \in SUBSET CurveUniverse : Cardinality(C) <= MaxCurveRows}
    /\ pc = "views"
    /\ raw = <<>> /\ df = <<>> /\ trades = <<>>
    /\ err = "none"
    /\ AnimIdle

NextAnim == StartView \/ SkipBucket \/ EmitFrame \/ EmptyFigure \/ ReturnFigure

SpecAnim == InitAnim /\ [][NextAnim]_vars

----------------------------------------------------------------------------
(* Properties of the pipeline, under Spec *)

RECURSIVE SumOver(_, _)
SumOver(I, f) ==
    IF I = {} THEN 0
    ELSE LET i == CHOOSE j \in I : TRUE IN f[i] + SumOver(I \ {i}, f)

Filtered == pc \in {"aggregate", "views"}

\* the trades whose five key components all equal those of point p
Matching(p) ==
    {i \in 1..Len(trades) :
        /\ trades[i].bucket_time = p.bucket_time
        /\ trades[i].expiration = p.expiration
        /\ trades[i].okey_xx = p.strike
        /\ trades[i].okey_cp = p.cp
        /\ trades[i].is_otm = p.is_otm}

\* the trades that share all five key components with trade i
Mates(i) ==
    {j \in 1..Len(trades) :
        /\ trades[j].bucket_time = trades[i].bucket_time
        /\ trades[j].expiration = trades[i].expiration
        /\ trades[j].okey_xx = trades[i].okey_xx
        /\ trades[j].okey_cp = trades[i].okey_cp
        /\ trades[j].is_otm = trades[i].is_otm}

PointsFor(i) ==
    {p \in curves : i \in Matching(p)}

Sizes == [i \in 1..Len(trades) |-> trades[i].prtSize]
IvSizes == [i \in 1..Len(trades) |-> trades[i].prtIv * trades[i].prtSize]

\* C1: every trade filter_trades returns has price >= 0.05, size > 0,
\* 0.02 < IV < 1.0, underlying > 0, 0.80 <= strike/underlying <= 1.20 and
\* days-to-expiration > 0, and is one of the loaded trades.
C1_FilterPredicates ==
    Filtered =>
        \A i \in 1..Len(trades) :
            LET t == trades[i] IN
            /\ t.prtPrice # NaN /\ t.prtPrice >= 5
            /\ t.prtSize # NaN /\ t.prtSize > 0
            /\ t.prtIv # NaN /\ t.prtIv > 200 /\ t.prtIv < 10000
            /\ t.uPrc # NaN /\ t.uPrc > 0
            /\ t.okey_xx # NaN
            /\ 100 * t.okey_xx >= 80 * t.uPrc
            /\ 100 * t.okey_xx <= 120 * t.uPrc
            /\ t.days_to_exp # NaN /\ t.days_to_exp > 0
            /\ \E j \in 1..Len(df) :
                   /\ df[j].prtPrice = t.prtPrice /\ df[j].prtSize = t.prtSize
                   /\ df[j].prtIv = t.prtIv /\ df[j].uPrc = t.uPrc
                   /\ df[j].okey_xx = t.okey_xx /\ df[j].okey_cp = t.okey_cp
                   /\ df[j].timestamp = t.timestamp
                   /\ df[j].expiration = t.expiration

\* some trades were returned and some were dropped
C1_Witness ==
    /\ pc = "aggregate"
    /\ Len(trades) >= 1
    /\ Len(trades) < Len(df)

\* C2: at most one point per key; a point's IV is sum(IV x size)/sum(size)
\* and its volume is sum(size) over exactly the trades matching its key.
C2_WeightedPerKey ==
    pc = "views" =>
        /\ \A p, q \in curves :
               (/\ p.bucket_time = q.bucket_time /\ p.expiration = q.expiration
                /\ p.strike = q.strike /\ p.cp = q.cp /\ p.is_otm = q.is_otm)
               => p = q
        /\ \A p \in curves :
               LET M == Matching(p) IN
               /\ M # {}
               /\ p.volume = SumOver(M, Sizes)
               /\ p.iv.den > 0
               /\ p.iv.num * SumOver(M, Sizes) = p.iv.den * SumOver(M, IvSizes)

\* a point made of two trades of different IV and size, beside a third
\* trade that is not part of it
C2_Witness ==
    /\ pc = "views"
    /\ Len(trades) = 3
    /\ \E p \in curves :
           /\ Cardinality(Matching(p)) = 2
           /\ \E i, j \in Matching(p) :
                  /\ trades[i].prtIv # trades[j].prtIv
                  /\ trades[i].prtSize # trades[j].prtSize

\* C3: every point has volume >= 2, 0.05 <= IV <= 0.35 and
\* days-to-expiration <= 60, and a group failing one of them has no point.
C3_PostFilter ==
    pc = "views" =>
        /\ \A p \in curves :
               /\ p.volume >= 2
               /\ p.iv.num >= 500 * p.iv.den
               /\ p.iv.num <= 3500 * p.iv.den
               /\ p.days_to_exp <= 60
        /\ \A i \in 1..Len(trades) :
               LET M == Mates(i) IN
               (\/ SumOver(M, Sizes) < 2
                \/ SumOver(M, IvSizes) < 500 * SumOver(M, Sizes)
                \/ SumOver(M, IvSizes) > 3500 * SumOver(M, Sizes)
                \/ trades[i].days_to_exp > 60)
               => PointsFor(i) = {}

\* one group is beyond the horizon and has no point, another has its point
C3_Witness ==
    /\ pc = "views"
    /\ curves # {}
    /\ \E i \in 1..Len(trades) :
           /\ trades[i].days_to_exp > 60
           /\ trades[i].prtSize >= 2
           /\ PointsFor(i) = {}

\* C4 as stated: no point is formed from a single trade.
C4_NoSingleTradePoint ==
    pc = "views" => \A p \in curves : Cardinality(Matching(p)) >= 2

\* C4 as amended: a group of one trade has a point only if the size of that
\* trade is at least 2; a lone trade of size 1 has none.
C4_SingleTradeNeedsSize2 ==
    pc = "views" =>
        /\ \A p \in curves :
               Cardinality(Matching(p)) = 1 =>
                   \A i \in Matching(p) : trades[i].prtSize >= 2
        /\ \A i \in 1..Len(trades) :
               (Mates(i) = {i} /\ trades[i].prtSize < 2) => PointsFor(i) = {}

\* a lone trade of size 1 without a point beside a lone trade with one
C4_Witness ==
    /\ pc = "views"
    /\ \E i \in 1..Len(trades) :
           Mates(i) = {i} /\ trades[i].prtSize = 1 /\ PointsFor(i) = {}
    /\ \E p \in curves : Cardinality(Matching(p)) = 1

\* C8 as stated: load_trades does not raise on a row whose expiration
\* components are malformed or missing.
C8_LoadNeverRaises == ~(pc = "raised" /\ err = "ValueError")

\* the earliest bucket among a set of trades, NaT skipped
EarliestDay(d) == MinBucket(d) \div 1440

HasBucket(d) == \E i \in 1..Len(d) : d[i].bucket_time # NaN

\* C10 as stated: days-to-expiration is counted from the midnight of the
\* earliest bucket among the returned trades, and filtering the returned
\* trades again changes nothing.
C10_DteFromReturned ==
    (pc = "aggregate" /\ HasBucket(trades)) =>
        /\ \A i \in 1..Len(trades) :
               trades[i].days_to_exp = trades[i].expiration - EarliestDay(trades)
        /\ filter_trades(trades) = trades

\* C10 as amended: days-to-expiration is counted from the midnight of the
\* earliest bucket among the trades that pass the price, size, IV,
\* underlying and moneyness predicates (before expired trades are dropped);
\* filtering the returned trades again changes nothing when their earliest
\* bucket falls on that same day.
C10_DteFromAdmitted ==
    pc = "aggregate" =>
        /\ \A i \in 1..Len(trades) :
               trades[i].days_to_exp =
                   trades[i].expiration - EarliestDay(Admitted(df))
        /\ (HasBucket(trades) /\ EarliestDay(trades) = EarliestDay(Admitted(df)))
               => filter_trades(trades) = trades

\* the earliest admitted trade was dropped as expired and a later-day trade
\* was returned
C10_Witness ==
    /\ pc = "aggregate"
    /\ HasBucket(trades)
    /\ EarliestDay(trades) > EarliestDay(Admitted(df))

----------------------------------------------------------------------------
(* Properties of build_animation, under SpecAnim *)

\* the rows of the curve for bucket bt that view v selects
RowsIn(v, bt) ==
    {r \in curves :
        /\ r.bucket_time = bt
        /\ (v = "puts" => r.cp = "Put")
        /\ (v = "calls" => r.cp = "Call")}

FramesNamed(fs, bt) == {i \in 1..Len(fs) : fs[i].name = bt}

TracesOf(f, type) == {i \in 1..Len(f.data) : f.data[i].type = type}

\* the scatter traces of a frame, the ATM line aside
ScatterOf(f) ==
    {i \in TracesOf(f, "Scatter3d") : f.data[i].name # "ATM"}

\* C5: a bucket with fewer than 5 rows in the selected view has no frame,
\* a bucket with at least 5 has exactly one, and two runs of the same view
\* on the same curve give the same frames.
C5_FramePerFullBucket ==
    /\ pc = "bucket" =>
           /\ \A j \in 1..Len(buckets) :
                  LET n == Cardinality(RowsIn(view, buckets[j]))
                      k == Cardinality(FramesNamed(frames, buckets[j]))
                  IN  /\ (n < 5 \/ j >= bt_i) => k = 0
                      /\ (n >= 5 /\ j < bt_i) => k = 1
           /\ \A i \in 1..Len(frames) :
                  /\ \E j \in 1..Len(buckets) : frames[i].name = buckets[j]
                  /\ Len(frames[i].data) >= 1
    /\ \A a, b \in 1..Len(figs) :
           figs[a].view = figs[b].view => figs[a].frames = figs[b].frames

\* the combined view was built twice; one bucket had its frame and the
\* other, with fewer than 5 rows, had none either time
C5_Witness ==
    /\ pc = "done"
    /\ Len(figs) = 4
    /\ Len(buckets) = 2
    /\ Len(figs[1].frames) = 1
    /\ Len(figs[4].frames) = 1
    /\ \E j \in 1..2 :
           /\ RowsIn("both", buckets[j]) # {}
           /\ Cardinality(RowsIn("both", buckets[j])) < 5

\* C6 as stated: when no bucket qualifies for a frame, no exception leaves
\* build_animation or run, and the remaining views are still built.
C6_NoFramesNotFatal == ~(pc = "raised" /\ err = "IndexError")

Started == pc \in {"bucket", "raised", "done"} \/ view_i > 0

\* C7: the spot is the median underlying price over all rows of the curve,
\* whatever the view, and every frame of the run carries that one spot and
\* the grid spanning 0.9 to 1.1 times it.
C7_SpotFixedForRun ==
    Started =>
        /\ spot = Median(curves)
        /\ curves # {} =>
               /\ 2 * Cardinality({r \in curves : 2 * r.underlying < spot.num})
                      <= Cardinality(curves)
               /\ 2 * Cardinality({r \in curves : 2 * r.underlying > spot.num})
                      <= Cardinality(curves)
        /\ \A i \in 1..Len(frames) :
               \A t \in 1..Len(frames[i].data) :
                   LET tr == frames[i].data[t] IN
                   /\ tr.name = "ATM" => \A q \in tr.points : q.x = spot
                   /\ tr.type = "Surface" =>
                          /\ 10 * spot.den * tr.grid.k_min.num
                                 = 9 * spot.num * tr.grid.k_min.den
                          /\ 10 * spot.den * tr.grid.k_max.num
                                 = 11 * spot.num * tr.grid.k_max.den
        /\ \A a \in 1..Len(figs) : figs[a].spot = spot

\* two frames of one run, the second with a surface, in a curve whose
\* buckets have different medians
C7_Witness ==
    /\ pc = "bucket"
    /\ Len(frames) = 2
    /\ Median(RowsIn("both", buckets[1])) # Median(RowsIn("both", buckets[2]))
    /\ \E t \in 1..Len(frames[2].data) : frames[2].data[t].type = "Surface"

\* C9: a frame carries a surface exactly when its bucket has at least 5 OTM
\* rows in the view and the interpolation succeeds; the surface is fitted
\* from the OTM rows only; with or without a surface the frame carries the
\* scatter points of every row of the bucket.
C9_SurfaceOnlyFromOtm ==
    \A i \in 1..Len(frames) :
        LET f    == frames[i]
            rows == RowsIn(view, f.name)
            otm  == {r \in rows : r.is_otm}
            fit  == {[x |-> r.strike, y |-> r.days_to_exp,
                      z |-> [num |-> 100 * r.iv.num, den |-> r.iv.den]] : r \in otm}
            all  == {[x |-> r.strike, y |-> r.days_to_exp,
                      z |-> [num |-> 100 * r.iv.num, den |-> r.iv.den]] : r \in rows}
            surf == TracesOf(f, "Surface")
        IN  /\ Cardinality(rows) >= 5
            /\ (surf # {}) <=> (Cardinality(otm) >= 5 /\ ~Collinear(fit))
            /\ Cardinality(surf) <= 1
            /\ \A t \in surf : f.data[t].points = fit
            /\ ScatterOf(f) # {}
            /\ UNION {f.data[t].points : t \in ScatterOf(f)} = all

\* a frame without a surface although its bucket has 5 OTM rows (they lie
\* on one line), then a frame without one for want of OTM rows
C9_Witness ==
    /\ Len(frames) = 2
    /\ TracesOf(frames[1], "Surface") = {}
    /\ Cardinality({r \in RowsIn(view, frames[1].name) : r.is_otm}) >= 5
    /\ TracesOf(frames[2], "Surface") = {}
    /\ Cardinality({r \in RowsIn(view, frames[2].name) : r.is_otm}) < 5

====
